---- MODULE Spec2Model ----
(***************************************************************************)
(* Hierarchia: the greedy space allocator (GSA), the structuring pass and  *)
(* the simulation pass of HEngine, and the builder that produces input     *)
(* trees.                                                                  *)
(*                                                                         *)
(* Coordinates.  The engine halves footprints (g.xSpace / 2) and halves    *)
(* configuration values, so horizontal and vertical coordinates are        *)
(* multiples of 1/2.  Every coordinate of the model is the program's value *)
(* times two; the allocator's unit step 1 is therefore ShiftAmt = 2.       *)
(***************************************************************************)
EXTENDS Integers, Sequences, FiniteSets, TLC

VARIABLES
    regions,    \* GSA.regions of the allocator instance in use
    last,       \* the last allocate call: its arguments and how it ended
    pc,         \* where calculate() stands
    rawNodes,   \* the caller's input tree: HRawNode objects, the root is 1
    config,     \* HEngine.config
    storesName, \* whether HNode's constructor stores the name it resolved
    idIndex,    \* HGeneration.idIndex
    nodes,      \* the HNode instances, in order of creation
    groups,     \* the HGroup instances, in order of creation
    graph,      \* the HGraph: its generations and dimensions
    genI,       \* the index graph.generations.forEach has reached
    graphDimensions, \* simulate's leftMostX / rightMostX
    top,        \* HGraphBuilder.top
    usedIds,    \* HGraphBuilder.usedIds
    builderNodes \* HGraphBuilder.nodes, in order of creation

gsaVars == <<regions, last>>
engineVars == <<pc, rawNodes, config, storesName, idIndex, nodes, groups,
                graph, genI, graphDimensions>>
builderVars == <<top, usedIds, builderNodes>>
vars == <<regions, last, pc, rawNodes, config, storesName, idIndex, nodes,
          groups, graph, genI, graphDimensions, top, usedIds, builderNodes>>

\* an optional value: Null when undefined, Some(v) otherwise
Null == <<>>
Some(v) == <<v>>
Val(o) == o[1]

\* ------------------------------------------------------------------ bounds

\* calls made on one allocator instance
MaxRegions == 2
\* nodes of an input tree
MaxNodes == 6
\* nodes of an input tree laid out under the default configuration, whose
\* footprints of a hundred units and more take as many allocator steps
MaxDefaultNodes == 4
\* distinct ids given to a builder
MaxBuilderIds == 2
\* entries the builder's children and partners lists hold together
MaxEdges == 2

\* ------------------------------------------------------------- GSA (GSA.ts)

\* the literal step of this.shift(dimensions, 1), in half units
ShiftAmt == 2

Min(S) == CHOOSE x \in S : \A y \in S : x <= y
Max(S) == CHOOSE x \in S : \A y \in S : x >= y

\* reduce((sum, m) => sum + f(m), 0) over the list s
RECURSIVE Sum(_, _)
Sum(f, s) == IF s = <<>> THEN 0 ELSE f[Head(s)] + Sum(f, Tail(s))

\* the test both overlaps() and getOverlapStartX() apply to one region
RegionOverlaps(xFrom, xTo, r) == ~(xTo <= r.xFrom \/ xFrom >= r.xTo)

Overlaps(dimensions, regs) ==
    \E i \in DOMAIN regs : RegionOverlaps(dimensions[1], dimensions[2], regs[i])

GetOverlapStartXFirst(dimensions, regs) ==
    LET overlaps == {i \in DOMAIN regs :
                        RegionOverlaps(dimensions[1], dimensions[2], regs[i])}
    IN  IF overlaps = {} THEN Null ELSE Some(regs[Min(overlaps)].xFrom)

GetOverlapStartX(dimensions, regs) ==
    LET overlaps == {i \in DOMAIN regs :
                        RegionOverlaps(dimensions[1], dimensions[2], regs[i])}
    IN  IF overlaps = {} THEN Null
        ELSE Some(Min({regs[i].xFrom : i \in overlaps}))

ShiftRight(dimensions, amt) == <<dimensions[1] + amt, dimensions[2] + amt>>

Shift(dimensions, amt) == <<dimensions[1] - amt, dimensions[2] - amt>>

ShiftOnce(dimensions, regs) ==
    IF Overlaps(dimensions, regs) THEN Shift(dimensions, ShiftAmt)
    ELSE dimensions

RECURSIVE ShiftRightWhileOverlaps(_, _)
ShiftRightWhileOverlaps(dimensions, regs) ==
    IF Overlaps(dimensions, regs)
    THEN ShiftRightWhileOverlaps(ShiftRight(dimensions, ShiftAmt), regs)
    ELSE dimensions

\* while (this.overlaps(dimensions)) this.shift(dimensions, 1)
RECURSIVE ShiftWhileOverlaps(_, _)
ShiftWhileOverlaps(dimensions, regs) ==
    IF Overlaps(dimensions, regs)
    THEN ShiftWhileOverlaps(Shift(dimensions, ShiftAmt), regs)
    ELSE dimensions

InvalidDimensionsStrict(xFrom, xTo) == xFrom >= xTo

InvalidDimensions(xFrom, xTo) == xFrom > xTo

Recorded(regs, id, dimensions) ==
    Append(regs, [id |-> id, xFrom |-> dimensions[1], xTo |-> dimensions[2]])

\* allocate(xFrom, xTo, id, upsert): the allocator's regions after the call,
\* how the call ended, what it returned and what a conflict error reported
GSAAllocate(regs, xFrom, xTo, id, upsert) ==
    IF InvalidDimensions(xFrom, xTo)
    THEN [regions |-> regs, outcome |-> "dimension_error",
          returned |-> <<>>, reported |-> Null]
    ELSE LET dimensions == <<xFrom, xTo>> IN
         IF Overlaps(dimensions, regs)
         THEN IF upsert
              THEN LET shifted == ShiftWhileOverlaps(dimensions, regs)
                   IN  [regions |-> Recorded(regs, id, shifted),
                        outcome |-> "ok",
                        returned |-> shifted, reported |-> Null]
              ELSE [regions |-> regs, outcome |-> "conflict_error",
                    returned |-> <<>>,
                    reported |-> GetOverlapStartX(dimensions, regs)]
         ELSE [regions |-> Recorded(regs, id, dimensions), outcome |-> "ok",
               returned |-> dimensions, reported |-> Null]

\* --------------------------------------------- direct use of one allocator

\* the bounds a caller passes, in half units: 0, 1/2, 1, and the 10 of the
\* documented conflict scenario
GSAInputs == {0, 1, 2, 20}

NoCall == [op |-> "none"]

\* the engine is not running while the allocator is used on its own
EngineIdle ==
    /\ pc = "idle"
    /\ rawNodes = <<>>
    /\ config = Null
    /\ storesName = FALSE
    /\ idIndex = 0
    /\ nodes = <<>>
    /\ groups = <<>>
    /\ graph = Null
    /\ genI = 0
    /\ graphDimensions = Null

\* a builder nothing was added to
BuilderIdle ==
    /\ top = Null
    /\ usedIds = {}
    /\ builderNodes = <<>>

GSAInit ==
    /\ regions = <<>>
    /\ last = NoCall
    /\ EngineIdle
    /\ BuilderIdle

\* one call of allocate on the instance; the tag is the call's own
Allocate ==
    /\ \E xFrom \in GSAInputs, xTo \in GSAInputs, upsert \in BOOLEAN :
         LET id == Len(regions) + 1
             r == GSAAllocate(regions, xFrom, xTo, id, upsert)
         IN  /\ Len(r.regions) <= MaxRegions
             /\ regions' = r.regions
             /\ last' = [op |-> "allocate", xFrom |-> xFrom, xTo |-> xTo,
                         id |-> id, upsert |-> upsert,
                         outcome |-> r.outcome, returned |-> r.returned,
                         reported |-> r.reported, before |-> regions]
    /\ UNCHANGED <<engineVars, builderVars>>

GSANext == Allocate

SpecGSA == GSAInit /\ [][GSANext]_vars

\* ------------------------------------------------- HGraphBuilder

\* the ids a caller uses
BuilderIds == 1 .. MaxBuilderIds

EdgeTypes == {"PARENT_OF", "PARTNER_OF", "CHILD_OF"}

\* findNode(id): the place of the first node with that id, or none
FindNode(ns, id) ==
    LET at == {i \in DOMAIN ns : ns[i].id = id}
    IN  IF at = {} THEN Null ELSE Some(Min(at))

\* list.find((n) => n.id === id) finds something
HasId(list, id) == \E i \in DOMAIN list : list[i] = id

\* the test of the PARTNER_OF case
PartnerCheck(n1, n2) ==
    HasId(n2.partners, n1.id) \/ HasId(n1.partners, n2.id)

\* the edges recorded: the entries of all children and partners lists
EdgeCount(ns) ==
    Sum([i \in DOMAIN ns |-> Len(ns[i].children) + Len(ns[i].partners)],
        [i \in DOMAIN ns |-> i])

BuilderInit ==
    /\ regions = <<>>
    /\ last = NoCall
    /\ EngineIdle
    /\ BuilderIdle

\* addNode(id, parent): parent is a node returned earlier, or left out
AddNode ==
    /\ \E id \in BuilderIds, parent \in {Null} \cup {Some(i) : i \in DOMAIN builderNodes} :
         IF id \in usedIds
         THEN /\ last' = [op |-> "addNode", id1 |-> id, t |-> "", id2 |-> id,
                          outcome |-> "error", before |-> builderNodes]
              /\ UNCHANGED builderVars
         ELSE LET node == [id |-> id, children |-> <<>>, partners |-> <<>>]
                  pushed == Append(builderNodes, node)
                  attached ==
                      IF parent = Null THEN pushed
                      ELSE [pushed EXCEPT
                              ![Val(parent)].children = Append(@, id)]
              IN  /\ EdgeCount(attached) <= MaxEdges
                  /\ usedIds' = usedIds \cup {id}
                  /\ builderNodes' = attached
                  /\ top' = IF top = Null THEN Some(id) ELSE top
                  /\ last' = [op |-> "addNode", id1 |-> id, t |-> "",
                              id2 |-> id, outcome |-> "ok",
                              before |-> builderNodes]
    /\ UNCHANGED <<regions, engineVars>>

\* addEdge(id1, t, id2)
AddEdge ==
    /\ \E id1 \in BuilderIds, id2 \in BuilderIds, t \in EdgeTypes :
         LET f1 == FindNode(builderNodes, id1)
             f2 == FindNode(builderNodes, id2)
             call == [op |-> "addEdge", id1 |-> id1, t |-> t, id2 |-> id2,
                      outcome |-> "ok", before |-> builderNodes]
         IN  IF f1 = Null \/ f2 = Null
             THEN /\ last' = [call EXCEPT !.outcome = "error"]
                  /\ UNCHANGED builderVars
             ELSE LET n1 == builderNodes[Val(f1)]
                      n2 == builderNodes[Val(f2)]
                  IN  IF t = "PARTNER_OF" /\ PartnerCheck(n1, n2)
                      THEN /\ last' = [call EXCEPT !.outcome = "error"]
                           /\ UNCHANGED builderVars
                      ELSE LET after ==
                                 CASE t = "PARENT_OF" ->
                                        [builderNodes EXCEPT
                                           ![Val(f1)].children = Append(@, id2)]
                                   [] t = "CHILD_OF" ->
                                        [builderNodes EXCEPT
                                           ![Val(f2)].children = Append(@, id1)]
                                   [] t = "PARTNER_OF" ->
                                        [builderNodes EXCEPT
                                           ![Val(f2)].partners = Append(@, id1)]
                           IN  /\ EdgeCount(after) <= MaxEdges
                               /\ builderNodes' = after
                               /\ last' = call
                               /\ UNCHANGED <<top, usedIds>>
    /\ UNCHANGED <<regions, engineVars>>

\* export()
Export ==
    /\ last' = [op |-> "export", id1 |-> 0, t |-> "", id2 |-> 0,
                outcome |-> IF top = Null THEN "error" ELSE "ok",
                before |-> builderNodes]
    /\ UNCHANGED <<regions, engineVars, builderVars>>

BuilderNext ==
    \/ AddNode
    \/ AddEdge
    \/ Export

SpecBuilder == BuilderInit /\ [][BuilderNext]_vars

\* ------------------------------------------------- configuration (HEngine)

\* HEngine.config.graph.padding
GraphPadding == 200
\* HEngine.config.generation.defaultX
GenerationDefaultX == 0
\* HEngine.config.generation.padding
GenerationPadding == 0
\* HEngine.config.generation.gap
GenerationGap == 100
\* HEngine.config.node.width, which no getter reads
NodeWidth == 40
\* HEngine.config.node.height
NodeHeight == 80
\* HEngine.config.node.gap
NodeGap == 20
\* node.maxNameLength, text.charWidth and text.padding of the documented
\* configuration
MaxNameLength == 15
CharWidth == 8
TextPadding == 10
\* the length of the default name "Unnamed Node"
UnnamedNodeLength == 12

\* the default configuration: the static object of HEngine with the text
\* keys of the documented one; node.xPadding, which neither sets, is 0
DefaultConfig ==
    [graphPadding |-> GraphPadding,
     defaultX |-> GenerationDefaultX,
     generationPadding |-> GenerationPadding,
     generationGap |-> GenerationGap,
     nodeWidth |-> NodeWidth,
     nodeHeight |-> NodeHeight,
     nodeGap |-> NodeGap,
     maxNameLength |-> MaxNameLength,
     charWidth |-> CharWidth,
     textPadding |-> TextPadding,
     xPadding |-> 0]

\* The static configuration object is assigned by the user: the default
\* one, and two with small horizontal values, so that footprints of 1, 2,
\* ... units and their gaps meet within a few nodes.
Configs ==
    {DefaultConfig,
     [DefaultConfig EXCEPT !.nodeGap = 1, !.maxNameLength = 2,
                           !.charWidth = 1, !.textPadding = 0],
     [DefaultConfig EXCEPT !.defaultX = 1, !.nodeGap = 2,
                           !.maxNameLength = 2, !.charWidth = 1,
                           !.textPadding = 0]}

\* ----------------------------------------------------- input trees (HRawNode)

Ascending(S) ==
    LET RECURSIVE Asc(_)
        Asc(T) == IF T = {} THEN <<>>
                  ELSE LET m == Min(T) IN <<m>> \o Asc(T \ {m})
    IN  Asc(S)

\* The ordered trees of n nodes, numbered level by level: node i > 1 hangs
\* on parent[i] < i, and the nodes hanging on one parent are consecutive.
TreeParents(n) ==
    {p \in [2 .. n -> 1 .. n] :
        /\ \A i \in 2 .. n : p[i] < i
        /\ \A i \in 2 .. (n - 1) : p[i] <= p[i + 1]}

\* A node hangs in its parent's children list or in its partners list; among
\* the nodes hanging on one parent the children are numbered first.
TreeKinds(n, p) ==
    {k \in [2 .. n -> {"child", "partner"}] :
        \A i \in 2 .. (n - 1) :
            (p[i] = p[i + 1] /\ k[i] = "partner") => k[i + 1] = "partner"}

\* The names of the input: every node unnamed, every node with a name of
\* one character, or every second node with such a name.
TreeNames(n) ==
    {[i \in 1 .. n |-> Null],
     [i \in 1 .. n |-> Some(1)],
     [i \in 1 .. n |-> IF i % 2 = 0 THEN Null ELSE Some(1)]}

RawTree(n, p, k, names) ==
    [i \in 1 .. n |->
        [id |-> i,
         name |-> names[i],
         children |-> Ascending({j \in 2 .. n :
                          p[j] = i /\ k[j] = "child"}),
         partners |-> Ascending({j \in 2 .. n :
                          p[j] = i /\ k[j] = "partner"})]]

\* ------------------------------------------------ model entities (models/)

\* calculateTextWidth(text), for a text of the given length; of a text that
\* is undefined, text.length raises a TypeError (see XSpaceThrows)
CalculateTextWidth(length) ==
    LET truncated == IF length > config.maxNameLength
                     THEN config.maxNameLength ELSE length
    IN  truncated * config.charWidth + config.textPadding

\* the constructor's  name = name ?? "Unnamed Node",  a name by its length
ResolvedName(name) == IF name = Null THEN UnnamedNodeLength ELSE Val(name)

\* HNode.fromRaw(raw) = new HNode(raw.id, raw.name).  The constructor
\* resolves a missing name in its parameter and, as the file is written,
\* never stores it: the field this.name stays undefined (storesName = FALSE).
\* storesName = TRUE is the constructor with the resolved name stored in the
\* field, the only reading under which xSpace has a value.  x, y and anchors
\* are the optional fields of HNode, undefined at construction.
FromRaw(raw) ==
    [id |-> raw.id,
     name |-> IF storesName THEN Some(ResolvedName(raw.name)) ELSE Null,
     x |-> Null, y |-> Null, anchors |-> Null]

\* HNode.xSpace
NodeXSpace(m) == CalculateTextWidth(Val(nodes[m].name)) + config.xPadding

\* HSubGroup.xSpace
SubGroupXSpace(sg) ==
    LET memberSpace == Sum([m \in DOMAIN nodes |-> NodeXSpace(m)], sg.members)
        gapSpace == (Len(sg.members) - 1) * config.nodeGap
    IN  memberSpace + gapSpace

\* HGroup.xSpace
GroupXSpace(g) ==
    LET sGroupSpace ==
            Sum([k \in DOMAIN g.subGroups |-> SubGroupXSpace(g.subGroups[k])],
                [k \in DOMAIN g.subGroups |-> k])
        nodeSpace == Sum([m \in DOMAIN nodes |-> NodeXSpace(m)], g.members)
        gapSpace == (Len(g.members) - 1) * config.nodeGap
    IN  sGroupSpace + nodeSpace + gapSpace

NewGroupPlaced(parentGroup) ==
    [parentGroup |-> parentGroup, members |-> <<>>, subGroups |-> <<>>,
     x |-> Some(0), y |-> Some(0), anchors |-> Null]

\* new HGroup(parentGroup)
NewGroup(parentGroup) ==
    [parentGroup |-> parentGroup, members |-> <<>>, subGroups |-> <<>>,
     x |-> Null, y |-> Null, anchors |-> Null]

\* new HGeneration(reqId): id = reqId ?? HGeneration.idIndex
NewGeneration(reqId, index) ==
    [id |-> IF reqId = Null THEN index ELSE Val(reqId),
     x |-> Null, y |-> Null, xSpace |-> Null, groups |-> <<>>]

\* new HGraph(gens); height in whole units
NewGraph(gens) ==
    LET genHeight == config.nodeHeight + config.generationPadding
        gapHeight == config.generationGap
        count == Cardinality(DOMAIN gens)
        gapAmount == count + 1
        gapSpace == gapHeight * gapAmount
        genSpace == genHeight * count
    IN  [generations |-> gens, genHeight |-> genHeight,
         gapHeight |-> gapHeight, gapSpace |-> gapSpace,
         genSpace |-> genSpace, height |-> gapSpace + genSpace,
         width |-> Null]

\* ------------------------------------------------ HEngine.structure

SameDepth(depth) == depth

\* the depth structure() recurses with
ChildDepth(depth) == depth + 1

\* the HNode instances of a node's partners, appended in list order
RECURSIVE WithPartners(_, _)
WithPartners(insts, partners) ==
    IF partners = <<>> THEN insts
    ELSE WithPartners(Append(insts, FromRaw(rawNodes[Head(partners)])),
                      Tail(partners))

\* S = [list, groups, nodes, idIndex]: the generation list (list[depth]),
\* and the groups and nodes made so far
RECURSIVE StructureCall(_, _, _, _)
RECURSIVE StructureLoop(_, _, _, _, _)

\* structure(arr, list, parentGroup, depth)
StructureCall(S, arr, parentGroup, depth) ==
    LET group == Len(S.groups) + 1
        S1 == [S EXCEPT !.groups = Append(@, NewGroup(parentGroup))]
        S2 == IF depth \notin DOMAIN S1.list
              THEN [S1 EXCEPT
                      !.list = (depth :> NewGeneration(Some(depth),
                                                       S1.idIndex)) @@ @,
                      !.idIndex = @ + 1]
              ELSE S1
        S3 == [S2 EXCEPT !.list[depth].groups = Append(@, group)]
    IN  StructureLoop(S3, arr, 1, group, depth)

\* for (const node of arr), from its k-th element on
StructureLoop(S, arr, k, group, depth) ==
    IF k > Len(arr) THEN S
    ELSE LET node == rawNodes[arr[k]]
             convNode == Len(S.nodes) + 1
             S1 == [S EXCEPT !.nodes = Append(@, FromRaw(node))]
             S2 == IF Len(node.partners) > 0
                   THEN LET all == WithPartners(S1.nodes, node.partners)
                            sGroup == [members |->
                                         [j \in 1 .. (1 + Len(node.partners))
                                            |-> convNode + j - 1]]
                        IN  [S1 EXCEPT
                               !.nodes = all,
                               !.groups[group].subGroups = Append(@, sGroup)]
                   ELSE [S1 EXCEPT
                           !.groups[group].members = Append(@, convNode)]
             S3 == IF Len(node.children) > 0
                   THEN StructureCall(S2, node.children, Some(group),
                                      ChildDepth(depth))
                   ELSE S2
         IN  StructureLoop(S3, arr, k + 1, group, depth)

\* ------------------------------------------------ HEngine.simulate

\* calcGenY, calcGroupY, calcGroupAnchorY (half units in, half units out)
CalcGenY(currHeight) ==
    currHeight - 2 * config.generationGap - 2 * graph.genHeight
CalcGroupY(anchor) == anchor - config.generationGap
CalcGroupAnchorY(currY) == currY - graph.genHeight - config.graphPadding

InitialGroupAnchorsOffset(x, y) ==
    Some([top |-> Null,
          bottom |-> Some([x |-> x - config.graphPadding,
                           y |-> CalcGroupAnchorY(y)])])

\* group.anchors of the single group of generation 0
InitialGroupAnchors(x, y) ==
    Some([top |-> Null,
          bottom |-> Some([x |-> x, y |-> CalcGroupAnchorY(y)])])

PlacedDetached(g, x, y, topY) ==
    [g EXCEPT
       !.parentGroup = Null,
       !.x = Some(x),
       !.y = Some(y),
       !.anchors = Some([top |-> Some([x |-> x, y |-> topY]),
                         bottom |-> Some([x |-> x,
                                          y |-> CalcGroupAnchorY(y)])])]

\* what the loop body writes to the group g: g.x, g.anchors, g.y and
\* g.anchors.bottom
Placed(g, x, y, topY) ==
    [g EXCEPT
       !.x = Some(x),
       !.y = Some(y),
       !.anchors = Some([top |-> Some([x |-> x, y |-> topY]),
                         bottom |-> Some([x |-> x,
                                          y |-> CalcGroupAnchorY(y)])])]

\* g.xSpace raises a TypeError: the getter reaches calculateTextWidth with
\* the undefined name of one of the group's nodes
XSpaceThrows(g) ==
    \/ \E i \in DOMAIN g.members : nodes[g.members[i]].name = Null
    \/ \E k \in DOMAIN g.subGroups :
          \E i \in DOMAIN g.subGroups[k].members :
              nodes[g.subGroups[k].members[i]].name = Null

\* S = [groups, regions, genDimensions, last, error]: the body of
\* for (const g of gen.groups), from the j-th group of the generation on
RECURSIVE GroupLoop(_, _, _)
GroupLoop(S, gs, j) ==
    IF j > Len(gs) \/ S.error # Null THEN S
    ELSE LET g == S.groups[gs[j]] IN
         IF g.parentGroup = Null
         THEN [S EXCEPT !.error = Some("Child group missing parent.")]
         ELSE IF S.groups[Val(g.parentGroup)].anchors = Null
                 \/ Val(S.groups[Val(g.parentGroup)].anchors).bottom = Null
         THEN [S EXCEPT !.error = Some("Parent group missing bottom anchor.")]
         ELSE IF XSpaceThrows(g)
         THEN [S EXCEPT !.error = Some("TypeError")]
         ELSE LET bottom ==
                      Val(Val(S.groups[Val(g.parentGroup)].anchors).bottom)
                  anchorX == bottom.x
                  \* halfWidth = g.xSpace / 2, in half units
                  halfWidth == GroupXSpace(g)
                  r == GSAAllocate(S.regions, anchorX - halfWidth,
                                   anchorX + halfWidth, gs[j], TRUE)
                  call == [op |-> "allocate", xFrom |-> anchorX - halfWidth,
                           xTo |-> anchorX + halfWidth, id |-> gs[j],
                           upsert |-> TRUE, outcome |-> r.outcome,
                           returned |-> r.returned, reported |-> r.reported,
                           before |-> S.regions]
              IN  IF r.outcome # "ok"
                  THEN [S EXCEPT !.error = Some(r.outcome), !.last = call]
                  ELSE LET xFrom == r.returned[1]
                           xTo == r.returned[2]
                           x == (xFrom + xTo) \div 2
                           y == CalcGroupY(bottom.y)
                       IN  GroupLoop(
                             [S EXCEPT
                                !.regions = r.regions,
                                !.last = call,
                                !.genDimensions =
                                    <<Min({@[1], xFrom}), Max({@[2], xTo})>>,
                                !.groups[gs[j]] =
                                    Placed(@, x, y, bottom.y)],
                             gs, j + 1)

\* ------------------------------------------------ HEngine.calculate

Init ==
    /\ regions = <<>>
    /\ last = NoCall
    /\ pc = "structure"
    /\ \E n \in 1 .. MaxNodes :
         \E p \in TreeParents(n) :
           \E k \in TreeKinds(n, p) :
             \E names \in TreeNames(n) :
               rawNodes = RawTree(n, p, k, names)
    /\ config \in Configs
    /\ config = DefaultConfig => Len(rawNodes) <= MaxDefaultNodes
    /\ storesName \in BOOLEAN
    /\ idIndex = 0
    /\ nodes = <<>>
    /\ groups = <<>>
    /\ graph = Null
    /\ genI = 0
    /\ graphDimensions = Null
    /\ BuilderIdle

\* this.structure([initNode], genList); new HGraph(genList); and simulate's
\* first statements, up to the forEach
Structure ==
    /\ pc = "structure"
    /\ LET S == StructureCall([list |-> <<>>, groups |-> <<>>, nodes |-> <<>>,
                               idIndex |-> idIndex],
                              <<1>>, Null, 0)
       IN  /\ nodes' = S.nodes
           /\ groups' = S.groups
           /\ idIndex' = S.idIndex
           /\ graph' = NewGraph(S.list)
    /\ graphDimensions' = [leftMostX |-> 0, rightMostX |-> 0]
    /\ genI' = 0
    /\ pc' = "simulate"
    /\ UNCHANGED <<regions, last, rawNodes, config, storesName, builderVars>>

\* the forEach callback for i = 0
SimulateInitialGeneration ==
    /\ pc = "simulate"
    /\ genI = 0
    /\ genI \in DOMAIN graph.generations
    /\ LET gen == graph.generations[0] IN
       IF Len(gen.groups) # 1
       THEN /\ pc' = "failed"
            /\ UNCHANGED <<groups, graph, genI>>
       ELSE LET x == 2 * config.defaultX
                y == 2 * graph.height - 2 * config.graphPadding
                       - graph.genHeight
            IN  /\ graph' = [graph EXCEPT !.generations[0].x = Some(x),
                                          !.generations[0].y = Some(y)]
                /\ groups' = [groups EXCEPT
                                ![gen.groups[1]].x = Some(x),
                                ![gen.groups[1]].y = Some(y),
                                ![gen.groups[1]].anchors =
                                    InitialGroupAnchors(x, y)]
                /\ genI' = 1
                /\ pc' = "simulate"
    /\ UNCHANGED <<regions, last, rawNodes, config, storesName, idIndex,
                   nodes, graphDimensions, builderVars>>

\* the forEach callback for i > 0, with a fresh GSA
SimulateGeneration ==
    /\ pc = "simulate"
    /\ genI > 0
    /\ genI \in DOMAIN graph.generations
    /\ LET prevGen == graph.generations[genI - 1]
           gen == graph.generations[genI]
       IN  IF prevGen.x = Null \/ prevGen.y = Null
           THEN /\ pc' = "failed"
                /\ UNCHANGED <<regions, last, groups, graph, genI,
                               graphDimensions>>
           ELSE LET S == GroupLoop([groups |-> groups, regions |-> <<>>,
                                    genDimensions |-> <<0, 0>>,
                                    last |-> last, error |-> Null],
                                   gen.groups, 1)
                IN  /\ regions' = S.regions
                    /\ last' = S.last
                    /\ groups' = S.groups
                    /\ IF S.error # Null
                       THEN /\ pc' = "failed"
                            /\ graph' = [graph EXCEPT
                                 !.generations[genI].x = prevGen.x,
                                 !.generations[genI].y =
                                     Some(CalcGenY(Val(prevGen.y)))]
                            /\ UNCHANGED <<genI, graphDimensions>>
                       ELSE /\ pc' = "simulate"
                            /\ graph' = [graph EXCEPT
                                 !.generations[genI].x = prevGen.x,
                                 !.generations[genI].y =
                                     Some(CalcGenY(Val(prevGen.y))),
                                 !.generations[genI].xSpace = Some(
                                     S.genDimensions[2] - S.genDimensions[1])]
                            /\ graphDimensions' =
                                 [leftMostX |-> Min({graphDimensions.leftMostX,
                                                     S.genDimensions[1]}),
                                  rightMostX |-> Max({graphDimensions.rightMostX,
                                                      S.genDimensions[2]})]
                            /\ genI' = genI + 1
    /\ UNCHANGED <<rawNodes, config, storesName, idIndex, nodes, builderVars>>

\* after the forEach: graph.width, and calculate returns the graph
SimulateFinish ==
    /\ pc = "simulate"
    /\ genI \notin DOMAIN graph.generations
    /\ graph' = [graph EXCEPT !.width = Some(
                    graphDimensions.rightMostX - graphDimensions.leftMostX
                        + 2 * config.graphPadding)]
    /\ pc' = "done"
    /\ UNCHANGED <<regions, last, rawNodes, config, storesName, idIndex,
                   nodes, groups, genI, graphDimensions, builderVars>>

Next ==
    \/ Structure
    \/ SimulateInitialGeneration
    \/ SimulateGeneration
    \/ SimulateFinish

Spec == Init /\ [][Next]_vars

\* ------------------------------------------------ the allocator's contract

\* [a,b) and [c,d) overlap iff NOT(b <= c OR a >= d)
IntervalsOverlap(a, b, c, d) == ~(b <= c \/ a >= d)

\* [xFrom, xTo) overlaps none of the regions regs
FreeOf(xFrom, xTo, regs) ==
    \A i \in DOMAIN regs :
        ~IntervalsOverlap(xFrom, xTo, regs[i].xFrom, regs[i].xTo)

IsPrefix(s, t) == Len(s) <= Len(t) /\ SubSeq(t, 1, Len(s)) = s

LastCallValid == last.op = "allocate" /\ last.xFrom <= last.xTo

\* no request needs more unit steps than this to pass every region
ShiftBound(xTo, regs) ==
    IF regs = <<>> THEN 0
    ELSE Max({0, xTo - Min({regs[i].xFrom : i \in DOMAIN regs}) + 1})

\* the least k >= 0 for which [xFrom - k, xTo - k) is free of regs, if any
LeastShifts(xFrom, xTo, regs) ==
    {k \in 0 .. ShiftBound(xTo, regs) :
        /\ FreeOf(xFrom - k * ShiftAmt, xTo - k * ShiftAmt, regs)
        /\ \A j \in 0 .. (k - 1) :
              ~FreeOf(xFrom - j * ShiftAmt, xTo - j * ShiftAmt, regs)}

\* C2: after any sequence of allocate calls no two recorded regions overlap,
\* and a call leaves every region recorded before it in place, unchanged.
C2_RegionsDisjointAppendOnly ==
    /\ [](\A i, j \in DOMAIN regions :
            i # j => ~IntervalsOverlap(regions[i].xFrom, regions[i].xTo,
                                       regions[j].xFrom, regions[j].xTo))
    /\ [][IsPrefix(regions, regions')]_gsaVars

\* two regions are recorded, the second one after a shift
C2_Witness ==
    /\ Len(regions) = 2
    /\ last.op = "allocate" /\ last.outcome = "ok"
    /\ last.returned # <<last.xFrom, last.xTo>>

FirstRegion == [id |-> 1, xFrom |-> 0, xTo |-> 20]

\* the last call is allocate(0, 10, _, true)
AskedZeroTenUpsert ==
    /\ last.op = "allocate" /\ last.upsert
    /\ last.xFrom = 0 /\ last.xTo = 20

C5_ConflictReportsMinXFrom ==
    (LastCallValid /\ ~last.upsert) =>
        LET hit == {i \in DOMAIN last.before :
                      IntervalsOverlap(last.xFrom, last.xTo,
                                       last.before[i].xFrom,
                                       last.before[i].xTo)}
        IN  /\ (last.outcome = "conflict_error") <=> (hit # {})
            /\ hit # {} =>
                  /\ last.reported =
                        Some(Min({last.before[i].xFrom : i \in hit}))
                  /\ regions = last.before
            /\ hit = {} => last.outcome = "ok"

\* a conflict with two recorded regions, the later one further left
C5_Witness ==
    /\ LastCallValid /\ ~last.upsert /\ last.outcome = "conflict_error"
    /\ Len(last.before) = 2
    /\ last.before[2].xFrom < last.before[1].xFrom
    /\ IntervalsOverlap(last.xFrom, last.xTo,
                        last.before[1].xFrom, last.before[1].xTo)
    /\ IntervalsOverlap(last.xFrom, last.xTo,
                        last.before[2].xFrom, last.before[2].xTo)

\* C6: allocate fails with a dimension error whenever xFrom > xTo, whatever
\* upsert is and whatever is recorded, and then records nothing; a request
\* with xFrom = xTo is no dimension error.
C6_DimensionError ==
    last.op = "allocate" =>
        /\ last.xFrom > last.xTo =>
              /\ last.outcome = "dimension_error"
              /\ regions = last.before
        /\ last.xFrom = last.xTo => last.outcome # "dimension_error"

\* a dimension error on an allocator that holds regions, with upsert set
C6_Witness ==
    /\ last.op = "allocate" /\ last.outcome = "dimension_error"
    /\ last.upsert /\ Len(last.before) > 0

\* ------------------------------------------------ the engine's contract

Structured == pc \in {"simulate", "done", "failed"}

GroupsOfGeneration(d) == graph.generations[d].groups

AllGroupIds == DOMAIN groups

Range(s) == {s[i] : i \in DOMAIN s}

\* the node instances a group holds, through its member list or a subgroup
GroupNodes(g) ==
    Range(groups[g].members)
        \cup UNION {Range(groups[g].subGroups[k].members) :
                        k \in DOMAIN groups[g].subGroups}

\* the input node whose children list holds n, if any
ChildParents(n) == {i \in DOMAIN rawNodes : n \in Range(rawNodes[i].children)}

\* n is reached from the root through child edges only
RECURSIVE ChildReached(_)
ChildReached(n) ==
    n = 1 \/ \E i \in ChildParents(n) : ChildReached(i)

\* the number of child edges between n and the root
RECURSIVE ChildDistance(_)
ChildDistance(n) ==
    IF n = 1 THEN 0
    ELSE 1 + ChildDistance(CHOOSE i \in ChildParents(n) : ChildReached(i))

\* the final horizontal interval of a group, in half units
GroupFrom(g) == Val(groups[g].x) - GroupXSpace(groups[g])
GroupTo(g) == Val(groups[g].x) + GroupXSpace(groups[g])

C7_DepthCorrect ==
    Structured =>
        /\ \E k \in 1 .. Len(groups) :
              DOMAIN graph.generations = 0 .. (k - 1)
        /\ \A d \in DOMAIN graph.generations :
              /\ graph.generations[d].id = d
              /\ \A i \in DOMAIN GroupsOfGeneration(d) :
                    LET g == groups[GroupsOfGeneration(d)[i]] IN
                    IF d = 0 THEN g.parentGroup = Null
                    ELSE /\ g.parentGroup # Null
                         /\ Val(g.parentGroup) \in
                                Range(GroupsOfGeneration(d - 1))
        /\ \A n \in DOMAIN rawNodes :
              ChildReached(n) =>
                  LET d == ChildDistance(n)
                      at == {m \in DOMAIN nodes : nodes[m].id = n}
                  IN  /\ at # {}
                      /\ d \in DOMAIN graph.generations
                      /\ \A m \in at :
                            \E i \in DOMAIN GroupsOfGeneration(d) :
                                m \in GroupNodes(GroupsOfGeneration(d)[i])

\* a structured tree three generations deep with a partner below the root
C7_Witness ==
    /\ Structured
    /\ 2 \in DOMAIN graph.generations
    /\ \E n \in DOMAIN rawNodes :
         /\ ChildReached(n) /\ ChildDistance(n) = 2
         /\ Len(rawNodes[n].partners) > 0

\* C8 as stated: after structuring, exactly one HNode exists for each input
\* node reachable through children or partners lists, and every HNode is in
\* exactly one group's member list or one subgroup's member list, once.
C8_OneNodePerInputNode ==
    Structured =>
        /\ \A n \in DOMAIN rawNodes :
              Cardinality({m \in DOMAIN nodes : nodes[m].id = n}) = 1
        /\ \A m \in DOMAIN nodes :
              LET places == 1 .. Len(nodes)
                  inMembers ==
                      {q \in AllGroupIds \X places :
                          /\ q[2] \in DOMAIN groups[q[1]].members
                          /\ groups[q[1]].members[q[2]] = m}
                  inSubGroups ==
                      {q \in AllGroupIds \X places \X places :
                          /\ q[2] \in DOMAIN groups[q[1]].subGroups
                          /\ q[3] \in DOMAIN
                                groups[q[1]].subGroups[q[2]].members
                          /\ groups[q[1]].subGroups[q[2]].members[q[3]] = m}
              IN  Cardinality(inMembers) + Cardinality(inSubGroups) = 1

\* C9: generation 0 holds exactly one group, the root's, which has no parent
\* group; once the layout is finished its bottom anchor x is the group's x,
\* which is the generation's x, the configured default x.
C9_RootGroup ==
    Structured =>
        /\ 0 \in DOMAIN graph.generations
        /\ Len(GroupsOfGeneration(0)) = 1
        /\ LET g == GroupsOfGeneration(0)[1] IN
           /\ groups[g].parentGroup = Null
           /\ \E m \in GroupNodes(g) : nodes[m].id = 1
           /\ pc = "done" =>
                /\ groups[g].anchors # Null
                /\ Val(groups[g].anchors).bottom # Null
                /\ Val(Val(groups[g].anchors).bottom).x = Val(groups[g].x)
                /\ groups[g].x = graph.generations[0].x
                /\ Val(graph.generations[0].x) = 2 * config.defaultX

\* a finished layout of several generations whose default x is not 0
C9_Witness ==
    /\ pc = "done"
    /\ config.defaultX # 0
    /\ 2 \in DOMAIN graph.generations
    /\ Val(groups[GroupsOfGeneration(0)[1]].x) = 2 * config.defaultX

\* the footprints of a group's parts: its subgroups and standalone members
GroupPartsXSpace(g) ==
    Sum([k \in DOMAIN g.subGroups |-> SubGroupXSpace(g.subGroups[k])],
        [k \in DOMAIN g.subGroups |-> k])
      + Sum([m \in DOMAIN nodes |-> NodeXSpace(m)], g.members)

\* C10 as stated: a group has a footprint, which is the sum of its
\* subgroups' and standalone members' footprints plus node-gaps between them
\* (none at least, one per neighbouring pair at most), so with a node-gap
\* >= 0 it is never smaller than the sum of its parts' footprints.
C10_FootprintAdditive ==
    Structured =>
        \A g \in AllGroupIds :
            LET parts == Len(groups[g].members) + Len(groups[g].subGroups)
                extra == GroupXSpace(groups[g]) - GroupPartsXSpace(groups[g])
            IN  /\ ~XSpaceThrows(groups[g])
                /\ extra >= 0
                /\ \E gaps \in 0 .. (parts - 1) : extra = gaps * config.nodeGap

\* ------------------------------------------------ scenarios and positions

Terminated == pc \in {"done", "failed"}

\* the input is a root (1) whose children are 2 and 3, no partners anywhere
RootWithTwoChildren ==
    /\ Len(rawNodes) = 3
    /\ rawNodes[1].children = <<2, 3>>
    /\ \A i \in DOMAIN rawNodes : rawNodes[i].partners = <<>>

\* C11 as stated: for a root A whose children are B and C (no partners),
\* calculate returns 2 generations; generation 1 has exactly one group whose
\* standalone members are B and C in that order; B and C have horizontal
\* positions whose extents do not overlap and lie exactly one node-gap apart.
C11_TwoChildrenPlaced ==
    (RootWithTwoChildren /\ Terminated) =>
        /\ pc = "done"
        /\ DOMAIN graph.generations = 0 .. 1
        /\ Len(GroupsOfGeneration(1)) = 1
        /\ LET g == groups[GroupsOfGeneration(1)[1]] IN
           /\ g.subGroups = <<>>
           /\ Len(g.members) = 2
           /\ nodes[g.members[1]].id = 2
           /\ nodes[g.members[2]].id = 3
           /\ LET b == nodes[g.members[1]]
                  c == nodes[g.members[2]]
              IN  /\ b.x # Null
                  /\ c.x # Null
                  /\ LET bFrom == Val(b.x) - NodeXSpace(g.members[1])
                         bTo == Val(b.x) + NodeXSpace(g.members[1])
                         cFrom == Val(c.x) - NodeXSpace(g.members[2])
                         cTo == Val(c.x) + NodeXSpace(g.members[2])
                     IN  /\ ~IntervalsOverlap(bFrom, bTo, cFrom, cTo)
                         /\ \/ cFrom - bTo = 2 * config.nodeGap
                            \/ bFrom - cTo = 2 * config.nodeGap

\* the input is a root (1) with one child (2) whose partners list is <<3>>
RootChildWithPartner ==
    /\ Len(rawNodes) = 3
    /\ rawNodes[1].children = <<2>> /\ rawNodes[1].partners = <<>>
    /\ rawNodes[2].children = <<>> /\ rawNodes[2].partners = <<3>>

\* none of the subgroup's nodes has an undefined name
SubGroupHasXSpace(sg) ==
    \A i \in DOMAIN sg.members : nodes[sg.members[i]].name # Null

\* C12 as stated: for a root A with one child B whose partners list is [C],
\* generation 1 has exactly one group, with no standalone member and exactly
\* one subgroup whose members are B, C in that order; under the default
\* configuration that subgroup's footprint is 2 x node-width + node-gap; and
\* every subgroup's footprint is the sum of its members' footprints plus
\* (member count - 1) x node-gap.
C12_SubGroupFootprint ==
    Structured =>
        /\ RootChildWithPartner =>
              /\ 1 \in DOMAIN graph.generations
              /\ Len(GroupsOfGeneration(1)) = 1
              /\ LET g == groups[GroupsOfGeneration(1)[1]] IN
                 /\ g.members = <<>>
                 /\ Len(g.subGroups) = 1
                 /\ Len(g.subGroups[1].members) = 2
                 /\ nodes[g.subGroups[1].members[1]].id = 2
                 /\ nodes[g.subGroups[1].members[2]].id = 3
                 /\ config = DefaultConfig =>
                       /\ SubGroupHasXSpace(g.subGroups[1])
                       /\ SubGroupXSpace(g.subGroups[1]) =
                             2 * config.nodeWidth + config.nodeGap
        /\ \A h \in AllGroupIds : \A k \in DOMAIN groups[h].subGroups :
              LET sg == groups[h].subGroups[k] IN
              /\ SubGroupHasXSpace(sg)
              /\ SubGroupXSpace(sg) =
                    Sum([m \in DOMAIN nodes |-> NodeXSpace(m)], sg.members)
                        + (Len(sg.members) - 1) * config.nodeGap

\* ------------------------------------------------ order and frame

\* the index of the generation that holds group g
GenerationOf(g) ==
    CHOOSE d \in DOMAIN graph.generations : g \in Range(GroupsOfGeneration(d))

Unplaced(g) == g.x = Null /\ g.y = Null /\ g.anchors = Null

HasBottomAnchor(g) == g.anchors # Null /\ Val(g.anchors).bottom # Null

\* C13: when structuring ends no group carries coordinates or anchors; the
\* simulation processes the generations in increasing depth order; when a
\* group of a generation i > 0 receives its x, y and anchors, its parent's
\* bottom anchor was assigned before; and nothing assigned to a generation
\* changes while a later generation is processed.
C13_TopDownOrder ==
    /\ []((pc = "simulate" /\ genI = 0) =>
            \A g \in AllGroupIds : Unplaced(groups[g]))
    /\ [][pc = "simulate" =>
            /\ genI' \in {genI, genI + 1}
            /\ \A d \in DOMAIN graph.generations :
                  /\ d > genI => graph'.generations[d] = graph.generations[d]
                  /\ d < genI =>
                        /\ graph'.generations[d] = graph.generations[d]
                        /\ graph.generations[d].x # Null
                  /\ d # genI =>
                        \A i \in DOMAIN GroupsOfGeneration(d) :
                            groups'[GroupsOfGeneration(d)[i]] =
                                groups[GroupsOfGeneration(d)[i]]
            /\ \A g \in AllGroupIds :
                  groups'[g] # groups[g] =>
                      /\ Unplaced(groups[g])
                      /\ groups'[g].x # Null /\ groups'[g].y # Null
                      /\ HasBottomAnchor(groups'[g])
                      /\ GenerationOf(g) > 0 =>
                            /\ groups[g].parentGroup # Null
                            /\ HasBottomAnchor(
                                   groups[Val(groups[g].parentGroup)])
                            /\ GenerationOf(Val(groups[g].parentGroup))
                                   = GenerationOf(g) - 1]_vars

\* a finished layout in which a group three generations deep was placed
C13_Witness ==
    /\ pc = "done"
    /\ \E g \in AllGroupIds :
         /\ GenerationOf(g) = 2
         /\ HasBottomAnchor(groups[g])
         /\ groups[g].x # Null

\* ------------------------------------------------ the builder's contract

\* the partners list of the node with the given id, in the given node list
PartnersOf(ns, id) == ns[Val(FindNode(ns, id))].partners

\* C14 as stated: addEdge with the partner relation throws when the two
\* nodes are already partners in either direction, and then changes nothing;
\* so after any sequence of addNode and addEdge calls no partners list holds
\* the same node twice, no two nodes a, b are each in the other's partners
\* list, and no node is listed as its own partner.
C14_NoCircularPartners ==
    /\ (/\ last.op = "addEdge" /\ last.t = "PARTNER_OF"
        /\ FindNode(last.before, last.id1) # Null
        /\ FindNode(last.before, last.id2) # Null
        /\ \/ HasId(PartnersOf(last.before, last.id2), last.id1)
           \/ HasId(PartnersOf(last.before, last.id1), last.id2))
          => /\ last.outcome = "error"
             /\ builderNodes = last.before
    /\ \A i \in DOMAIN builderNodes :
          LET ps == builderNodes[i].partners IN
          /\ \A j, k \in DOMAIN ps : j # k => ps[j] # ps[k]
          /\ ~HasId(ps, builderNodes[i].id)
          /\ \A j \in DOMAIN builderNodes :
                ~(/\ HasId(ps, builderNodes[j].id)
                  /\ HasId(builderNodes[j].partners, builderNodes[i].id))

\* ------------------------------------------------ dimensions

\* the groups the allocator placed: those of the generations below the root's
AllocatedGroups == {g \in AllGroupIds : GenerationOf(g) > 0}

StructureOfGroups ==
    [g \in AllGroupIds |->
        [parentGroup |-> groups[g].parentGroup,
         members |-> groups[g].members,
         subGroups |-> groups[g].subGroups]]

StructureOfGraph ==
    [d \in DOMAIN graph.generations |->
        [id |-> graph.generations[d].id,
         groups |-> graph.generations[d].groups]]

StructureOfNodes == [m \in DOMAIN nodes |-> [id |-> nodes[m].id]]

\* C16: the simulation only fills position and anchor fields: the sequence
\* of generations, each generation's sequence of groups, each group's
\* members and subgroups (and their order) and each group's parent reference
\* stay as they were when structuring ended; calculate leaves the caller's
\* input tree unchanged.
C16_SimulationFrame ==
    /\ [][rawNodes' = rawNodes]_vars
    /\ [][Structured =>
            /\ StructureOfGroups' = StructureOfGroups
            /\ StructureOfGraph' = StructureOfGraph
            /\ StructureOfNodes' = StructureOfNodes]_vars

\* a finished layout of three generations with a subgroup, whose groups of
\* the last generation carry positions
C16_Witness ==
    /\ pc = "done"
    /\ 2 \in DOMAIN graph.generations
    /\ \E g \in AllGroupIds : groups[g].subGroups # <<>>
    /\ \A i \in DOMAIN GroupsOfGeneration(2) :
          groups[GroupsOfGeneration(2)[i]].x # Null

\* ------------------------------------------------ layout order

PositiveFootprints ==
    \A g \in AllGroupIds :
        ~XSpaceThrows(groups[g]) /\ GroupXSpace(groups[g]) > 0

ParentAnchorX(g) ==
    Val(Val(groups[Val(groups[g].parentGroup)].anchors).bottom).x

C18_NoErrorAllPlaced ==
    /\ pc # "failed"
    /\ pc = "done" =>
          \A g \in AllGroupIds :
              /\ groups[g].x # Null
              /\ groups[g].y # Null
              /\ HasBottomAnchor(groups[g])

====
